---- MODULE Spec2Model ----
(***************************************************************************)
(* The dApp connection dialog of src/components/DAppConnection.tsx: one    *)
(* React component with a local isProcessing flag, three props owned by    *)
(* the parent (wallets, selectedWallet, connectionRequest) and three       *)
(* callbacks (onWalletSelect, onApprove, onReject).  Strings are           *)
(* sequences of one-character strings.                                     *)
(***************************************************************************)
EXTENDS Integers, Sequences, FiniteSets, TLC

VARIABLES
    wallets,         \* prop: the ordered list of Wallet records
    selectedWallet,  \* prop: a Wallet record, or Null
    isProcessing,    \* local state, committed value of useState(false)
    dom,             \* what the last render committed: buttons and rows
    toasts,          \* titles passed to toast(), in order
    approveCalls,    \* arguments of the onApprove invocations, in order
    rejectCalls,     \* number of onReject invocations
    selectCalls,     \* arguments of the onWalletSelect invocations, in order
    approveResult,   \* how the latest onApprove invocation went
    rejectResult,    \* how the latest onReject invocation went
    setCalls,        \* arguments of setIsProcessing in the latest handler run
    lastEvent,       \* the latest event delivered to the dialog
    events           \* number of events so far

vars == <<wallets, selectedWallet, isProcessing, dom, toasts, approveCalls,
          rejectCalls, selectCalls, approveResult, rejectResult, setCalls,
          lastEvent, events>>

\* ------------------------------------------------------------------ bounds
MaxEvents == 3
MaxWallets == 2
MaxAddrLen == 9

\* The characters of the enumerated addresses.
Alphabet == {"a", "b", "."}

\* --------------------------------------------------------------- constants
PrefixLen == 8
SuffixLen == 6
Ellipsis == <<".", ".", ".">>

Null == [null |-> TRUE]

Min(a, b) == IF a < b THEN a ELSE b
Max(a, b) == IF a > b THEN a ELSE b

\* ----------------------------------------------------------- String.slice
\* ECMAScript String.prototype.slice(start, end): a negative index counts
\* from the end, both are clamped to [0, length], empty when from >= to.
Slice(s, start, end) ==
    LET n == Len(s)
        from == IF start < 0 THEN Max(n + start, 0) ELSE Min(start, n)
        to == IF end < 0 THEN Max(n + end, 0) ELSE Min(end, n)
    IN  IF from >= to THEN <<>> ELSE SubSeq(s, from + 1, to)

SliceFrom(s, start) == Slice(s, start, Len(s))

truncateAddress_suffixFromStart(address) ==
    Slice(address, 0, PrefixLen) \o Ellipsis \o SliceFrom(address, SuffixLen)

truncateAddress(address) ==
    Slice(address, 0, PrefixLen) \o Ellipsis \o SliceFrom(address, -SuffixLen)

\* ------------------------------------------------------------------ render
CancelDisabled_never(proc) == FALSE

CancelDisabled(proc) == proc

ConnectDisabled_ignoresSelection(proc, sel) == proc

ConnectDisabled_ignoresProcessing(proc, sel) == sel = Null

ConnectDisabled(proc, sel) == proc \/ sel = Null

ConnectLabel(proc) ==
    IF proc THEN "Connecting..." ELSE "Connect"

WalletRow(wallet, sel) ==
    [text |-> truncateAddress(wallet.address),
     selected |-> (sel # Null /\ sel.address = wallet.address)]

Render_connectOnlyProcessing(ws, sel, proc) ==
    [cancelDisabled |-> CancelDisabled(proc),
     connectDisabled |-> proc,
     connectLabel |-> ConnectLabel(proc),
     rows |-> [i \in 1..Len(ws) |-> WalletRow(ws[i], sel)]]

Render(ws, sel, proc) ==
    [cancelDisabled |-> CancelDisabled(proc),
     connectDisabled |-> ConnectDisabled(proc, sel),
     connectLabel |-> ConnectLabel(proc),
     rows |-> [i \in 1..Len(ws) |-> WalletRow(ws[i], sel)]]

\* The state before the first render is committed.
NotMounted ==
    [cancelDisabled |-> TRUE, connectDisabled |-> TRUE,
     connectLabel |-> "", rows |-> <<>>]

\* React batches the setIsProcessing calls of one event handler: the value
\* committed is the one of the last call, the current one when there is none.
Commit(cur, calls) ==
    IF calls = <<>> THEN cur ELSE calls[Len(calls)]

\* ------------------------------------------------------------------ inputs
ExampleAddress ==
    <<"0", "x", "1", "2", "3", "4", "5", "6", "7", "8", "9", "0", "a", "b",
      "c", "d", "e", "f", "1", "2", "3", "4", "5", "6", "7", "8", "9", "0",
      "a", "b", "c", "d", "e", "f", "1", "2", "3", "4", "5", "6", "7", "8">>
ShortAddress == <<"a", "b", "c">>
MidAddress == <<"o", "c", "t", "1", "2", "3", "4", "5", "6", "7", "8">>

WalletPool ==
    {[address |-> a] : a \in {ExampleAddress, ShortAddress, MidAddress}}

IsInjective(f) ==
    \A i, j \in DOMAIN f : f[i] = f[j] => i = j

\* Wallet lists: rows are keyed by address (key={wallet.address}).
WalletLists ==
    {ws \in UNION {[1..n -> WalletPool] : n \in 0..MaxWallets} : IsInjective(ws)}

\* The selections the parent can hand down: one of the listed wallets, or
\* none.
Selectable(ws) == {ws[i] : i \in 1..Len(ws)} \cup {Null}

NoEvent == [kind |-> "none", row |-> 0, handled |-> FALSE]

Init ==
    /\ wallets \in WalletLists
    /\ selectedWallet \in Selectable(wallets)
    /\ isProcessing = FALSE
    /\ dom = Render(wallets, selectedWallet, isProcessing)
    /\ toasts = <<>>
    /\ approveCalls = <<>>
    /\ rejectCalls = 0
    /\ selectCalls = <<>>
    /\ approveResult = "none"
    /\ rejectResult = "none"
    /\ setCalls = <<>>
    /\ lastEvent = NoEvent
    /\ events = 0

\* -------------------------------------------------------------- handlers
\* What the parent-supplied onApprove can do when called: return normally,
\* throw, or return a promise that settles later ("pending").
ApproveOutcomes == {"returned", "threw", "pending"}
RejectOutcomes == {"returned", "threw"}

\* setIsProcessing calls of handleApprove once a wallet is selected:
\* true before the call, false in the catch block.
ApproveSetCalls_resetAlways(outcome) == <<TRUE, FALSE>>

ApproveSetCalls(outcome) ==
    IF outcome = "threw" THEN <<TRUE, FALSE>> ELSE <<TRUE>>

\* toast() calls of the catch block.
ApproveToasts(outcome) ==
    IF outcome = "threw" THEN <<"Connection Failed">> ELSE <<>>

\* The wallet handed to onApprove.
ApproveArgument_firstWallet(sel, ws) ==
    IF ws = <<>> THEN sel ELSE ws[1]

ApproveArgument(sel, ws) == sel

handleApprove(outcome) ==
    IF selectedWallet = Null
    THEN /\ toasts' = Append(toasts, "No Wallet Selected")
         /\ setCalls' = <<>>
         /\ UNCHANGED <<approveCalls, approveResult>>
    ELSE /\ setCalls' = ApproveSetCalls(outcome)
         /\ approveCalls' =
                Append(approveCalls, ApproveArgument(selectedWallet, wallets))
         /\ approveResult' = outcome
         /\ toasts' = toasts \o ApproveToasts(outcome)

RejectSetCalls_none(outcome) == <<>>

RejectSetCalls(outcome) == <<TRUE>>

handleReject(outcome) ==
    /\ setCalls' = RejectSetCalls(outcome)
    /\ rejectCalls' = rejectCalls + 1
    /\ rejectResult' = outcome

\* The wallet a row hands to onWalletSelect.
RowArgument_firstWallet(ws, i) == ws[1]

RowArgument(ws, i) == ws[i]

\* ----------------------------------------------------------------- actions
\* A click on the Connect button; a disabled button dispatches no onClick.
ClickConnect ==
    /\ events < MaxEvents
    /\ events' = events + 1
    /\ \E outcome \in ApproveOutcomes :
         IF dom.connectDisabled
         THEN /\ lastEvent' = [kind |-> "connect", row |-> 0, handled |-> FALSE]
              /\ UNCHANGED <<toasts, approveCalls, approveResult, setCalls>>
         ELSE /\ lastEvent' = [kind |-> "connect", row |-> 0, handled |-> TRUE]
              /\ handleApprove(outcome)
    /\ isProcessing' = Commit(isProcessing, setCalls')
    /\ dom' = Render(wallets, selectedWallet, isProcessing')
    /\ UNCHANGED <<wallets, selectedWallet, rejectCalls, selectCalls,
                   rejectResult>>

\* A click on the Cancel button.
ClickCancel ==
    /\ events < MaxEvents
    /\ events' = events + 1
    /\ \E outcome \in RejectOutcomes :
         IF dom.cancelDisabled
         THEN /\ lastEvent' = [kind |-> "cancel", row |-> 0, handled |-> FALSE]
              /\ UNCHANGED <<rejectCalls, rejectResult, setCalls>>
         ELSE /\ lastEvent' = [kind |-> "cancel", row |-> 0, handled |-> TRUE]
              /\ handleReject(outcome)
    /\ isProcessing' = Commit(isProcessing, setCalls')
    /\ dom' = Render(wallets, selectedWallet, isProcessing')
    /\ UNCHANGED <<wallets, selectedWallet, toasts, approveCalls, selectCalls,
                   approveResult>>

\* A click on the i-th wallet row: onWalletSelect(wallet).  The parent owns
\* the selection and may or may not take the clicked wallet over.
ClickWalletRow ==
    /\ events < MaxEvents
    /\ events' = events + 1
    /\ \E i \in 1..Len(wallets) :
         /\ lastEvent' = [kind |-> "row", row |-> i, handled |-> TRUE]
         /\ selectCalls' = Append(selectCalls, RowArgument(wallets, i))
         /\ selectedWallet' \in {selectedWallet, RowArgument(wallets, i)}
    /\ setCalls' = <<>>
    /\ isProcessing' = Commit(isProcessing, setCalls')
    /\ dom' = Render(wallets, selectedWallet', isProcessing')
    /\ UNCHANGED <<wallets, toasts, approveCalls, rejectCalls, approveResult,
                   rejectResult>>

\* The parent re-renders the dialog with another selectedWallet prop.
ParentSelects ==
    /\ \E sel \in Selectable(wallets) \ {selectedWallet} :
         selectedWallet' = sel
    /\ lastEvent' = [kind |-> "props", row |-> 0, handled |-> TRUE]
    /\ dom' = Render(wallets, selectedWallet', isProcessing)
    /\ UNCHANGED <<wallets, isProcessing, toasts, approveCalls, rejectCalls,
                   selectCalls, approveResult, rejectResult, setCalls, events>>

\* The promise returned by onApprove settles.  handleApprove neither awaits
\* nor chains on the value onApprove returns, so nothing of the dialog moves.
ApprovalSettles ==
    /\ approveResult = "pending"
    /\ approveResult' \in {"fulfilled", "rejected"}
    /\ lastEvent' = [kind |-> "settle", row |-> 0, handled |-> TRUE]
    /\ UNCHANGED <<wallets, selectedWallet, isProcessing, dom, toasts,
                   approveCalls, rejectCalls, selectCalls, rejectResult,
                   setCalls, events>>

Next ==
    \/ ClickConnect
    \/ ClickCancel
    \/ ClickWalletRow
    \/ ParentSelects
    \/ ApprovalSettles

Spec == Init /\ [][Next]_vars

\* ------------------------------------------- the address list on its own
\* Every address over a small alphabet up to MaxAddrLen characters, and a
\* few longer ones; the dialog is mounted with a one-wallet list.
DottedAddress ==
    <<"a", "a", "a", "a", "a", "a", "a", "a", ".", ".", ".", "a", "a", "a",
      "a", "a", "a">>

AddressSet ==
    UNION {[1..n -> Alphabet] : n \in 1..MaxAddrLen}
        \cup {ExampleAddress, MidAddress, DottedAddress}

InitTrunc ==
    /\ wallets \in {<<[address |-> a]>> : a \in AddressSet}
    /\ selectedWallet = Null
    /\ isProcessing = FALSE
    /\ dom = NotMounted
    /\ toasts = <<>>
    /\ approveCalls = <<>>
    /\ rejectCalls = 0
    /\ selectCalls = <<>>
    /\ approveResult = "none"
    /\ rejectResult = "none"
    /\ setCalls = <<>>
    /\ lastEvent = NoEvent
    /\ events = 0

\* The first render.
Mount ==
    /\ dom = NotMounted
    /\ dom' = Render(wallets, selectedWallet, isProcessing)
    /\ UNCHANGED <<wallets, selectedWallet, isProcessing, toasts, approveCalls,
                   rejectCalls, selectCalls, approveResult, rejectResult,
                   setCalls, lastEvent, events>>

NextTrunc == Mount

SpecTrunc == InitTrunc /\ [][NextTrunc]_vars

\* ================================================================== claims
Clicked(kind) == events' = events + 1 /\ lastEvent'.kind = kind

BothDisabled(d) == d.cancelDisabled /\ d.connectDisabled

ApproveInvoked == Len(approveCalls') = Len(approveCalls) + 1

Succeeded(r) == r \in {"returned", "fulfilled"}

Failed(r) == r \in {"threw", "rejected"}

Contains(text, s) ==
    \E i \in 0..(Len(text) - Len(s)) : SubSeq(text, i + 1, i + Len(s)) = s

FirstChars(s, k) == SubSeq(s, 1, Min(k, Len(s)))

LastChars(s, k) == SubSeq(s, Len(s) - Min(k, Len(s)) + 1, Len(s))

HasDot(s) == \E i \in 1..Len(s) : s[i] = "."

\* C1 (as stated): a click on Connect with wallet w selected and processing
\* false invokes onApprove exactly once with w and leaves processing true
\* and both buttons disabled.
C1_Original ==
    [][(Clicked("connect") /\ selectedWallet # Null /\ ~isProcessing)
        => /\ approveCalls' = Append(approveCalls, selectedWallet)
           /\ isProcessing'
           /\ BothDisabled(dom')]_vars

\* C1 (amended): a click on Connect with wallet w selected and processing
\* false invokes onApprove exactly once with w and first calls
\* setIsProcessing(true); unless onApprove throws, processing is true and
\* both buttons are disabled when the handler is done.
C1_ApproveOnceWithSelected ==
    [][(Clicked("connect") /\ selectedWallet # Null /\ ~isProcessing)
        => /\ approveCalls' = Append(approveCalls, selectedWallet)
           /\ setCalls' # <<>> /\ setCalls'[1] = TRUE
           /\ (approveResult' # "threw"
                 => isProcessing' /\ BothDisabled(dom'))]_vars

C1_Witness ==
    /\ lastEvent.kind = "connect" /\ lastEvent.handled
    /\ approveResult = "returned"
    /\ Len(approveCalls) = 1 /\ approveCalls[1] = selectedWallet
    /\ Len(wallets) = 2 /\ wallets[2] = selectedWallet
    /\ isProcessing /\ BothDisabled(dom)

\* C2: whenever an onApprove invocation fails (throws or rejects) exactly
\* one "Connection Failed" notification is emitted and processing is false
\* with Cancel enabled again; whenever it completes without failing no
\* notification is emitted and processing is true, and stays true.
C2_EveryFailureReported ==
    [][/\ ((ApproveInvoked \/ approveResult' # approveResult)
             /\ Failed(approveResult'))
          => /\ toasts' = Append(toasts, "Connection Failed")
             /\ ~isProcessing' /\ ~dom'.cancelDisabled
       /\ ((ApproveInvoked \/ approveResult' # approveResult)
             /\ Succeeded(approveResult'))
          => toasts' = toasts /\ isProcessing'
       /\ (Succeeded(approveResult) /\ isProcessing) => isProcessing']_vars

\* C3 (as stated): a click on Connect with no wallet selected emits exactly
\* one "No Wallet Selected" notification, invokes neither callback and
\* leaves processing false.
C3_Original ==
    [][(Clicked("connect") /\ selectedWallet = Null /\ ~isProcessing)
        => /\ toasts' = Append(toasts, "No Wallet Selected")
           /\ approveCalls' = approveCalls
           /\ rejectCalls' = rejectCalls
           /\ ~isProcessing']_vars

\* C3 (amended): a click on Connect with no wallet selected does nothing,
\* the button being disabled: no notification, no callback, processing as
\* it was.
C3_NoSelectionNoEffect ==
    [][(Clicked("connect") /\ selectedWallet = Null)
        => /\ ~lastEvent'.handled
           /\ toasts' = toasts
           /\ approveCalls' = approveCalls
           /\ rejectCalls' = rejectCalls
           /\ isProcessing' = isProcessing]_vars

C3_Witness ==
    /\ lastEvent.kind = "connect" /\ ~lastEvent.handled
    /\ selectedWallet = Null
    /\ ~isProcessing
    /\ toasts = <<>>
    /\ events = 1

C5_EnabledIff ==
    /\ [](/\ ~dom.connectDisabled <=> (selectedWallet # Null /\ ~isProcessing)
          /\ ~dom.cancelDisabled <=> ~isProcessing)
    /\ [][(approveCalls' # approveCalls \/ rejectCalls' # rejectCalls)
            => ~isProcessing]_vars

C5_Witness ==
    /\ isProcessing
    /\ selectedWallet # Null
    /\ lastEvent.kind = "connect" /\ ~lastEvent.handled
    /\ rejectCalls = 1
    /\ approveCalls = <<>>

\* C6: a click on a wallet row invokes onWalletSelect exactly once with
\* that row's wallet, whatever the selection and the processing flag, and
\* leaves processing alone and invokes neither onApprove nor onReject.
C6_RowClickReportsRow ==
    [][Clicked("row")
        => /\ lastEvent'.row \in 1..Len(wallets)
           /\ selectCalls' = Append(selectCalls, wallets[lastEvent'.row])
           /\ isProcessing' = isProcessing
           /\ approveCalls' = approveCalls
           /\ rejectCalls' = rejectCalls
           /\ toasts' = toasts]_vars

C6_Witness ==
    /\ lastEvent.kind = "row" /\ lastEvent.row = 2
    /\ isProcessing
    /\ Len(selectCalls) = 2
    /\ selectCalls[1] = wallets[2] /\ selectCalls[2] = wallets[2]
    /\ selectedWallet = wallets[2]

\* C7 (as stated): for every address the row text is its first 8
\* characters, "...", its last 6 characters, and the text never contains
\* the whole address.
C7_Original ==
    dom # NotMounted
      => \A i \in 1..Len(wallets) :
           LET a == wallets[i].address
               text == dom.rows[i].text
           IN  /\ text = FirstChars(a, PrefixLen) \o Ellipsis
                           \o LastChars(a, SuffixLen)
               /\ ~Contains(text, a)

\* C7 (amended): for every address the row text is its first 8 characters
\* (all of it when shorter), "...", its last 6 characters (all of it when
\* shorter); the text does not contain the whole address when the address
\* is longer than 8 characters and has no "." in it, and it starts with the
\* whole address when the address has at most 8 characters.
C7_TruncatedText ==
    dom # NotMounted
      => \A i \in 1..Len(wallets) :
           LET a == wallets[i].address
               text == dom.rows[i].text
           IN  /\ text = FirstChars(a, PrefixLen) \o Ellipsis
                           \o LastChars(a, SuffixLen)
               /\ (Len(a) > PrefixLen /\ ~HasDot(a)) => ~Contains(text, a)
               /\ Len(a) <= PrefixLen => SubSeq(text, 1, Len(a)) = a

C7_Witness ==
    /\ dom # NotMounted
    /\ wallets[1].address = <<"a", "b", "a", "b", "b", "a", "a", "b", "b">>
    /\ dom.rows[1].text =
         <<"a", "b", "a", "b", "b", "a", "a", "b", ".", ".", ".",
           "b", "b", "a", "a", "b", "b">>

\* C8: processing starts false; it becomes true only in a click on Connect
\* with a wallet selected or a click on Cancel; setIsProcessing(false) is
\* called only when onApprove threw, which is the only way from true to
\* false; after an approval that did not throw, or any reject, processing
\* is true in every state.
C8_ProcessingLifecycle ==
    /\ ~isProcessing
    /\ [](/\ (\E i \in 1..Len(setCalls) : setCalls[i] = FALSE)
               => approveResult = "threw"
          /\ (approveResult \in {"returned", "pending", "fulfilled"}
                \/ rejectCalls > 0) => isProcessing)
    /\ [][/\ (~isProcessing /\ isProcessing')
             => \/ Clicked("connect") /\ selectedWallet # Null /\ ApproveInvoked
                \/ Clicked("cancel") /\ rejectCalls' = rejectCalls + 1
          /\ (isProcessing /\ ~isProcessing')
             => ApproveInvoked /\ approveResult' = "threw"]_vars

C8_Witness ==
    /\ isProcessing
    /\ Len(approveCalls) = 2
    /\ approveResult = "returned"
    /\ Len(toasts) = 1 /\ toasts[1] = "Connection Failed"
    /\ lastEvent.kind = "row"

\* C9: once onReject was invoked onApprove is not invoked again; once an
\* onApprove invocation completed without error neither callback is invoked
\* again; a callback is invoked after an onApprove invocation only if that
\* invocation failed.
C9_OneDecision ==
    [][/\ rejectCalls > 0
          => approveCalls' = approveCalls /\ rejectCalls' = rejectCalls
       /\ Succeeded(approveResult)
          => approveCalls' = approveCalls /\ rejectCalls' = rejectCalls
       /\ (approveCalls # <<>>
             /\ (approveCalls' # approveCalls \/ rejectCalls' # rejectCalls))
          => Failed(approveResult)]_vars

C9_Witness ==
    /\ Len(approveCalls) = 1
    /\ approveResult = "threw"
    /\ rejectCalls = 1
    /\ lastEvent.kind = "connect" /\ ~lastEvent.handled
    /\ selectedWallet # Null

\* C10: the "No Wallet Selected" notification is never emitted, and the
\* approve handler never runs with no wallet selected: every handled click
\* on Connect invoked onApprove.
C10_GuardUnreachable ==
    /\ [](\A i \in 1..Len(toasts) : toasts[i] # "No Wallet Selected")
    /\ [][(Clicked("connect") /\ lastEvent'.handled)
            => selectedWallet # Null /\ ApproveInvoked]_vars

C10_Witness ==
    /\ lastEvent.kind = "connect" /\ ~lastEvent.handled
    /\ selectedWallet = Null
    /\ ~isProcessing
    /\ approveResult = "threw"
    /\ Len(toasts) = 1

====
